---- MODULE Spec2Model ----
(***************************************************************************)
(* StreetVendor Marketplace (src/script.js): the order lifecycle (cart,    *)
(* checkout split per vendor, status updates, immediate and deferred       *)
(* processing) and the proximity monitor, as a state machine with one      *)
(* action per event handler or timer callback.                             *)
(*                                                                         *)
(* Representation.  uid() strings are fresh integers drawn from one        *)
(* counter per prefix (u_, v_, p_, o_); 0 stands for null.  state.users,   *)
(* state.vendors, state.products and state.orders are functions whose      *)
(* DOMAIN is the set of keys; keys are created in increasing order, so     *)
(* increasing key order is the objects' insertion (for-in) order.          *)
(* Date.now() is the variable now, in milliseconds.  A location is a point *)
(* 1..5 of the table Points (0: no location); distances are in metres.     *)
(* A phone is an integer: 1..NumPhones typed by a user, DemoPhone for the  *)
(* demo customer's, and -u for the generated 'vendor-' + u of createVendor. *)
(*                                                                         *)
(* op and out observe the last handler: its name and outcome, and the      *)
(* notifications it issued (calls of ui.showToast or ui.browserNotify from *)
(* notifyOrderNew and proximityScanOnce), in order.  A handler that throws *)
(* part-way is one action whose effect is what it had done before the      *)
(* throw.                                                                  *)
(***************************************************************************)
EXTENDS Integers, Sequences, FiniteSets, TLC

VARIABLES
  users,             \* state.users: id -> [phone, role, loc]
  currentUserId,     \* state.currentUserId (0: null)
  vendors,           \* state.vendors: id -> [userId, loc, active, products, orders]
  products,          \* state.products: id -> [vendorId, price]
  orders,            \* state.orders: id -> [customerId, vendorId, items, schedule, status]
  saved,             \* localStorage[STORAGE_KEY]: the last snapshot saveState wrote
  demoFlag,          \* localStorage[DEMO_FLAG] is set
  settings,          \* settings: [radius (metres), mode]
  ids,               \* the next fresh id per uid prefix: [u, v, p, o]
  cart,              \* cart.items: sequence of [productId, vendorId, qty]
  timers,            \* pending setTimeout callbacks of scheduleOrderProcessing: {[id, at]}
  nextScanAt,        \* proximityInterval: when the interval fires next
  lastProxNotified,  \* lastProxNotified: vendor id -> timestamp
  modalOrder,        \* the order the order-detail modal's buttons are wired to (0: none)
  now,               \* Date.now()
  op,                \* the last handler and its outcome: [name, res]
  out,               \* the notifications the last handler emitted: sequence of [k, id]
  setUp,             \* per order, what scheduleOrderProcessing set up in this page load
  proxSeen,          \* per vendor, when this page load last emitted a proximity notification
  proxEver,          \* per vendor, when any page load last emitted one
  proxTo,            \* per vendor, the user the last proximity notification was shown to
  permission,        \* Notification.permission ("none": the page has no Notification API)
  prompted,          \* notifications waiting on the answer to Notification.requestPermission()
  proximityInterval, \* proximityInterval: the handle of the last setInterval (0: null)
  armed,             \* the handles of the interval timers the platform holds armed
  favorites          \* state.favorites: user id -> sequence of vendor ids

vars == <<users, currentUserId, vendors, products, orders, saved, demoFlag, settings,
          ids, cart, timers, nextScanAt, lastProxNotified, modalOrder, now, op, out,
          setUp, proxSeen, proxEver, proxTo, permission, prompted, proximityInterval,
          armed, favorites>>

---------------------------------------------------------------------------
(* Program constants *)

DefaultRadiusM == 1000
ScanIntervalMs == 12000
CooldownMs == 120000
GraceMs == 500

(* Bounds of the model *)

NumPhones == 1        \* phones a user types at login: 1..NumPhones
MaxNewUsers == 2      \* users created by logins and stall creation
MaxNewVendors == 1    \* stalls created from a vendor user's location
MaxNewProducts == 1   \* products added through the form
MaxOrders == 2        \* order ids
MaxCartQty == 2       \* units the cart may hold, over all its lines
MaxOrderTicks == 1    \* clock steps of 2 * GraceMs in the order specification
MaxProxTicks == 11    \* clock steps of ScanIntervalMs in the proximity specification
MaxPrompted == 2      \* notifications that wait on one permission prompt

\* uid() under these bounds: the ids of the demo data come after every id drawn
\* before the demo load, and the ids drawn after it come after those.
DemoIds == [u |-> MaxNewUsers + 1, v |-> MaxNewVendors + 1, p |-> MaxNewProducts + 1]
DemoSize == [u |-> 4, v |-> 3, p |-> 5]

\* How many users, stalls and products have been created since the state was
\* last replaced as a whole (the bounds above cap these).
Drawn(i, demo) ==
  IF demo
  THEN [u |-> i.u - (DemoIds.u + DemoSize.u),
        v |-> i.v - (DemoIds.v + DemoSize.v),
        p |-> i.p - (DemoIds.p + DemoSize.p)]
  ELSE [u |-> i.u - 1, v |-> i.v - 1, p |-> i.p - 1]

StartMs == CooldownMs + ScanIntervalMs

\* The demo customer's phone '9999999999': one more phone a user can type.
DemoPhone == NumPhones + 1

Roles == {"customer", "vendor"}

---------------------------------------------------------------------------
(* Pure helpers *)

\* The points a location provider reports: the three demo stalls, the customer of
\* the specification's scenario (12.3071, 76.6521) and a point 11 km away.
Points == 1..5

\* haversineDistanceKm over Points, in metres rounded up (d <= r for a whole
\* number of metres r exactly when the rounded-up distance is <= r).
DistTable ==
  << <<0, 395, 622, 16, 11582>>,
     <<395, 0, 1012, 380, 11238>>,
     <<622, 1012, 0, 638, 12176>>,
     <<16, 380, 638, 0, 11567>>,
     <<11582, 11238, 12176, 11567, 0>> >>

haversineDistanceM(a, b) == DistTable[a][b]

Min(S) == CHOOSE x \in S : \A y \in S : x <= y

RECURSIVE SortedSeq(_)
SortedSeq(S) == IF S = {} THEN <<>> ELSE <<Min(S)>> \o SortedSeq(S \ {Min(S)})

Range(s) == {s[i] : i \in 1..Len(s)}

Count(s, x) == Cardinality({i \in 1..Len(s) : s[i] = x})

\* The snapshot JSON.stringify(state) writes.
Snapshot(u, c, v, p, o, f) ==
  [users |-> u, currentUserId |-> c, vendors |-> v, products |-> p, orders |-> o,
   favorites |-> f]

Empty == [x \in {} |-> 0]

Ev(k, id) == [k |-> k, id |-> id]

---------------------------------------------------------------------------
(* Proximity scan: proximityScanOnce as a function of what it reads *)

\* ui.getCustomerLocation: the current user's location, 0 when there is none.
getCustomerLocation(us, cur) ==
  IF cur = 0 \/ cur \notin DOMAIN us THEN 0 ELSE us[cur].loc

\* Variant of ScanEligible without the role check.
EligibleAnyRole(us, cur) ==
  /\ cur # 0
  /\ cur \in DOMAIN us
  /\ us[cur].loc # 0

\* The early returns of proximityScanOnce: the scan goes on only for a logged-in
\* customer with a location.
ScanEligible(us, cur) ==
  /\ cur # 0
  /\ cur \in DOMAIN us
  /\ us[cur].role = "customer"
  /\ getCustomerLocation(us, cur) # 0

\* Number(settings.proximityRadiusKm) || DEFAULT_RADIUS_KM
ScanRadius(s) == IF s.radius # 0 THEN s.radius ELSE DefaultRadiusM

\* Variant of VendorInRange without the active check.
InRangeActiveOrNot(v, loc, r) ==
  /\ v.loc # 0
  /\ haversineDistanceM(loc, v.loc) <= r

\* The vendor filter of the scan loop: active, located, within the radius.
VendorInRange(v, loc, r) ==
  /\ v.active
  /\ v.loc # 0
  /\ haversineDistanceM(loc, v.loc) <= r

\* lastProxNotified[vid] || 0
LastTs(last, v) == IF v \in DOMAIN last THEN last[v] ELSE 0

\* Variant of CooldownOver that never holds a notification back.
CooldownIgnored(last, v, t) == t >= LastTs(last, v)

\* Date.now() - lastTs > 2 * 60 * 1000
CooldownOver(last, v, t) == t - LastTs(last, v) > CooldownMs

\* Variant of ScanSet that stops after the first vendor it notifies about.
ScanSetFirst(us, cur, vs, s, last, t) ==
  LET Q == IF ~ScanEligible(us, cur) THEN {}
           ELSE {v \in DOMAIN vs :
                   /\ VendorInRange(vs[v], getCustomerLocation(us, cur), ScanRadius(s))
                   /\ CooldownOver(last, v, t)}
  IN  IF Q = {} THEN {} ELSE {Min(Q)}

\* The vendors one scan notifies about.
ScanSet(us, cur, vs, s, last, t) ==
  IF ~ScanEligible(us, cur) THEN {}
  ELSE {v \in DOMAIN vs :
          /\ VendorInRange(vs[v], getCustomerLocation(us, cur), ScanRadius(s))
          /\ CooldownOver(last, v, t)}

\* lastProxNotified[vid] = Date.now() for every notified vendor.
Stamp(last, N, t) ==
  [v \in DOMAIN last \cup N |-> IF v \in N THEN t ELSE last[v]]

ProxEvents(N) == [i \in 1..Cardinality(N) |-> Ev("prox", SortedSeq(N)[i])]

---------------------------------------------------------------------------
(* Order processing: scheduleOrderProcessing and notifyOrderNew *)

\* notifyOrderNew dereferences vendor.name, and customer.name where it names the
\* customer: a TypeError when that record is missing.
NotifyThrows(o, vs, us, cur, mode) ==
  \/ o.vendorId \notin DOMAIN vs
  \/ /\ o.customerId \notin DOMAIN us
     /\ (cur = vs[o.vendorId].userId \/ mode = "browser")

\* No schedule, or when - now <= 0: processed at once.
Due(o, t) == o.schedule = 0 \/ o.schedule - t <= 0

\* Variant of TimerFor whose timer is due as soon as it is set.
TimerAtOnce(id, o, t) == [id |-> id, at |-> t]

\* The timer scheduleOrderProcessing sets: ms + 500 from now, ms = when - now.
TimerFor(id, o, t) == [id |-> id, at |-> t + (o.schedule - t) + GraceMs]

\* scheduleOrderProcessing over the order ids s, in order, until one call throws:
\* the orders announced at once, the timers set, and whether a call threw.
RECURSIVE ScheduleAll(_, _, _, _, _, _, _)
ScheduleAll(s, os, vs, us, cur, mode, t) ==
  IF s = <<>> THEN [ready |-> <<>>, timers |-> {}, threw |-> FALSE]
  ELSE IF Head(s) \notin DOMAIN os THEN ScheduleAll(Tail(s), os, vs, us, cur, mode, t)
  ELSE IF Due(os[Head(s)], t) /\ NotifyThrows(os[Head(s)], vs, us, cur, mode)
       THEN [ready |-> <<>>, timers |-> {}, threw |-> TRUE]
  ELSE LET r == ScheduleAll(Tail(s), os, vs, us, cur, mode, t)
       IN  IF Due(os[Head(s)], t)
           THEN [ready |-> <<Head(s)>> \o r.ready, timers |-> r.timers, threw |-> r.threw]
           ELSE [ready |-> r.ready,
                 timers |-> {TimerFor(Head(s), os[Head(s)], t)} \cup r.timers,
                 threw |-> r.threw]

ReadyEvents(s) == [i \in 1..Len(s) |-> Ev("ready", s[i])]

\* What this page load has set up for the orders of r (a result of ScheduleAll):
\* imm immediate announcements, tmr timers, rdy announcements emitted so far.
NoSetUp(made) == [made |-> made, imm |-> 0, tmr |-> 0, rdy |-> 0]

Recorded(su, idset, made) ==
  [o \in DOMAIN su \cup idset |-> IF o \in DOMAIN su THEN su[o] ELSE NoSetUp(made)]

AfterSchedule(su, r) ==
  [o \in DOMAIN su |->
     [made |-> su[o].made,
      imm |-> su[o].imm + Count(r.ready, o),
      tmr |-> su[o].tmr + Cardinality({t \in r.timers : t.id = o}),
      rdy |-> su[o].rdy + Count(r.ready, o)]]

---------------------------------------------------------------------------
(* Rendering *)

\* ui.renderCart dereferences p.name and vendor.name of every cart line: a
\* TypeError when a line's product or vendor is no longer in the state.
RenderCartThrows(c, ps, vs) ==
  \E i \in 1..Len(c) : c[i].productId \notin DOMAIN ps \/ c[i].vendorId \notin DOMAIN vs

\* Object.values(state.vendors).find(v => v.userId === u.id): 0 when none.
VendorOf(vs, u) ==
  IF \E v \in DOMAIN vs : vs[v].userId = u
  THEN Min({v \in DOMAIN vs : vs[v].userId = u}) ELSE 0

---------------------------------------------------------------------------
Init ==
  /\ users = Empty
  /\ currentUserId = 0
  /\ vendors = Empty
  /\ products = Empty
  /\ orders = Empty
  /\ saved = Snapshot(Empty, 0, Empty, Empty, Empty, Empty)
  /\ demoFlag = FALSE
  /\ settings = [radius |-> DefaultRadiusM, mode |-> "popup"]
  /\ ids = [u |-> 1, v |-> 1, p |-> 1, o |-> 1]
  /\ cart = <<>>
  /\ timers = {}
  /\ nextScanAt = StartMs + ScanIntervalMs
  /\ lastProxNotified = Empty
  /\ modalOrder = 0
  /\ now = StartMs
  /\ op = [name |-> "init", res |-> "ok"]
  /\ out = <<>>
  /\ setUp = Empty
  /\ proxSeen = Empty
  /\ proxEver = Empty
  /\ proxTo = Empty
  /\ permission = "default"
  /\ prompted = 0
  /\ proximityInterval = 1
  /\ armed = {1}
  /\ favorites = Empty

\* saveState(): the snapshot holds the state the handler leaves.
SaveState ==
  saved' = Snapshot(users', currentUserId', vendors', products', orders', favorites')

Did(name, res) == op' = [name |-> name, res |-> res]

\* A handler whose outcome no property reads.
Idle == Did("idle", "ok")

---------------------------------------------------------------------------
(* Session handlers *)

\* Variant of ClearInterval that leaves every timer armed.
KeepInterval(a, h) == a

\* if (proximityInterval) clearInterval(proximityInterval): the interval timers
\* that stay armed (h = 0: null).
ClearInterval(a, h) == IF h # 0 THEN a \ {h} ELSE a

\* The handle setInterval returns: one that names no armed timer.
NewHandle(a) == Min({h \in 1..(Cardinality(a) + 1) : h \notin a})

\* Variant of StartProximityMonitor whose scan forgets the cooldown table.
StartMonitorFreshTable(ran, us, cur, vs) ==
  LET N == IF ran THEN ScanSet(us, cur, vs, settings, Empty, now) ELSE {}
      a == ClearInterval(armed, proximityInterval)
  IN  /\ nextScanAt' = IF ran THEN now + ScanIntervalMs ELSE nextScanAt
      /\ proximityInterval' = IF ran THEN NewHandle(a) ELSE proximityInterval
      /\ armed' = IF ran THEN a \cup {NewHandle(a)} ELSE armed
      /\ lastProxNotified' = Stamp(lastProxNotified, N, now)
      /\ proxSeen' = Stamp(proxSeen, N, now)
      /\ proxEver' = Stamp(proxEver, N, now)
      /\ proxTo' = Stamp(proxTo, N, cur)
      /\ UNCHANGED <<permission, prompted, favorites>>
      /\ out' = ProxEvents(N)

\* startProximityMonitor: the interval is (re)armed and one scan runs at once.
\* ran is FALSE when the handler threw before reaching the call.
StartProximityMonitor(ran, us, cur, vs) ==
  LET N == IF ran THEN ScanSet(us, cur, vs, settings, lastProxNotified, now) ELSE {}
      a == ClearInterval(armed, proximityInterval)
  IN  /\ nextScanAt' = IF ran THEN now + ScanIntervalMs ELSE nextScanAt
      /\ proximityInterval' = IF ran THEN NewHandle(a) ELSE proximityInterval
      /\ armed' = IF ran THEN a \cup {NewHandle(a)} ELSE armed
      /\ lastProxNotified' = Stamp(lastProxNotified, N, now)
      /\ proxSeen' = Stamp(proxSeen, N, now)
      /\ proxEver' = Stamp(proxEver, N, now)
      /\ proxTo' = Stamp(proxTo, N, cur)
      /\ UNCHANGED <<permission, prompted, favorites>>
      /\ out' = ProxEvents(N)

\* Variant of FindUserByPhone that never finds a user.
FindNoUser(us, phone) == 0

\* addUserIfNotExists: the first user with that phone, else a new one (0: none yet).
FindUserByPhone(us, phone) ==
  IF \E u \in DOMAIN us : us[u].phone = phone
  THEN Min({u \in DOMAIN us : us[u].phone = phone}) ELSE 0

\* handleLogin with the phone and role of the form (phone 0: a field left empty).
\* ui.renderAll() throws out of the handler, before startProximityMonitor, when
\* the cart cannot be rendered.
HandleLogin(phone, role) ==
  IF phone = 0
  THEN /\ Idle
       /\ out' = <<>>
       /\ UNCHANGED <<users, currentUserId, vendors, products, orders, saved, demoFlag,
                      settings, ids, cart, timers, nextScanAt, proximityInterval, armed, lastProxNotified,
                      modalOrder, now, setUp, proxSeen, proxEver, proxTo, favorites, permission, prompted>>
  ELSE LET found == FindUserByPhone(users, phone)
           id == IF found = 0 THEN ids.u ELSE found
           us == IF found = 0
                 THEN users @@ (id :> [phone |-> phone, role |-> role, loc |-> 0])
                 ELSE users
           threw == RenderCartThrows(cart, products, vendors)
       IN  /\ found = 0 => Drawn(ids, demoFlag).u < MaxNewUsers
           /\ users' = us
           /\ currentUserId' = id
           /\ ids' = IF found = 0 THEN [ids EXCEPT !.u = @ + 1] ELSE ids
           /\ StartProximityMonitor(~threw, us, id, vendors)
           /\ Did("login", IF threw THEN "threw" ELSE "ok")
           /\ UNCHANGED <<vendors, products, orders, demoFlag, settings, cart, timers,
                          modalOrder, now, setUp>>
           /\ SaveState

\* The logout button.
Logout ==
  /\ currentUserId' = 0
  /\ Idle
  /\ out' = <<>>
  /\ UNCHANGED <<users, vendors, products, orders, demoFlag, settings, ids, cart,
                 timers, nextScanAt, proximityInterval, armed, lastProxNotified, modalOrder, now, setUp, proxSeen, proxEver, proxTo, favorites, permission, prompted>>
  /\ SaveState

\* Variant of NewVendorUser whose user is a customer.
NewCustomerUser(u) == [phone |-> -u, role |-> "customer", loc |-> 0]

\* createVendor (the later declaration, which is the one in force): a paired
\* vendor user u and a vendor v.
NewVendorUser(u) == [phone |-> -u, role |-> "vendor", loc |-> 0]
NewVendor(u, loc, active) ==
  [userId |-> u, loc |-> loc, active |-> active, products |-> <<>>, orders |-> <<>>]

\* loadDemoData past its flag check: the state is replaced by one customer, three
\* stalls and five products, and the demo customer is logged in.
DemoUsers(i) ==
  (i.u :> [phone |-> DemoPhone, role |-> "customer", loc |-> 0])
  @@ (i.u + 1 :> NewVendorUser(i.u + 1))
  @@ (i.u + 2 :> NewVendorUser(i.u + 2))
  @@ (i.u + 3 :> NewVendorUser(i.u + 3))

DemoVendors(i) ==
  (i.v :> [NewVendor(i.u + 1, 1, TRUE) EXCEPT !.products = <<i.p, i.p + 1>>])
  @@ (i.v + 1 :> [NewVendor(i.u + 2, 2, TRUE) EXCEPT !.products = <<i.p + 2, i.p + 3>>])
  @@ (i.v + 2 :> [NewVendor(i.u + 3, 3, FALSE) EXCEPT !.products = <<i.p + 4>>])

DemoProducts(i) ==
  (i.p :> [vendorId |-> i.v, price |-> 20])
  @@ (i.p + 1 :> [vendorId |-> i.v, price |-> 12])
  @@ (i.p + 2 :> [vendorId |-> i.v + 1, price |-> 60])
  @@ (i.p + 3 :> [vendorId |-> i.v + 1, price |-> 40])
  @@ (i.p + 4 :> [vendorId |-> i.v + 2, price |-> 299])

\* The quick-demo button: loadDemoData, then ui.renderAll().
QuickDemo ==
  IF demoFlag
  THEN /\ Idle
       /\ out' = <<>>
       /\ UNCHANGED <<users, currentUserId, vendors, products, orders, saved, demoFlag,
                      settings, ids, cart, timers, nextScanAt, proximityInterval, armed, lastProxNotified,
                      modalOrder, now, setUp, proxSeen, proxEver, proxTo, favorites, permission, prompted>>
  ELSE /\ users' = DemoUsers(DemoIds)
       /\ vendors' = DemoVendors(DemoIds)
       /\ products' = DemoProducts(DemoIds)
       /\ orders' = Empty
       /\ currentUserId' = DemoIds.u
       /\ ids' = [u |-> DemoIds.u + DemoSize.u,
                  v |-> DemoIds.v + DemoSize.v,
                  p |-> DemoIds.p + DemoSize.p,
                  o |-> ids.o]
       /\ favorites' = Empty
       /\ demoFlag' = TRUE
       /\ Idle
       /\ out' = <<>>
       /\ UNCHANGED <<settings, cart, timers, nextScanAt, proximityInterval, armed, lastProxNotified, modalOrder,
                      now, setUp, proxSeen, proxEver, proxTo, permission, prompted>>
       /\ SaveState

\* getAndSetCurrentUserLocation once the location provider has answered loc: a
\* vendor user's stall is moved there and activated, or a stall is created when the
\* user owns none; a customer's last known location is set.
UseGps(loc) ==
  /\ out' = <<>>
  /\ UNCHANGED <<products, orders, demoFlag, settings, cart, timers, nextScanAt, proximityInterval, armed,
                 lastProxNotified, modalOrder, now, setUp, proxSeen, proxEver, proxTo, favorites, permission, prompted, currentUserId>>
  /\ IF currentUserId = 0 \/ currentUserId \notin DOMAIN users
     THEN /\ Idle
          /\ UNCHANGED <<users, vendors, ids, saved>>
     ELSE IF users[currentUserId].role = "vendor"
     THEN LET v == VendorOf(vendors, currentUserId)
          IN  IF v = 0
              THEN /\ Drawn(ids, demoFlag).u < MaxNewUsers
                   /\ Drawn(ids, demoFlag).v < MaxNewVendors
                   /\ users' = users @@ (ids.u :> NewVendorUser(ids.u))
                   /\ vendors' = vendors @@ (ids.v :> NewVendor(ids.u, loc, TRUE))
                   /\ ids' = [ids EXCEPT !.u = @ + 1, !.v = @ + 1]
                   /\ Idle
                   /\ SaveState
              ELSE /\ vendors' = [vendors EXCEPT ![v].loc = loc, ![v].active = TRUE]
                   /\ Idle
                   /\ UNCHANGED <<users, ids>>
                   /\ SaveState
     ELSE /\ users' = [users EXCEPT ![currentUserId].loc = loc]
          /\ Idle
          /\ UNCHANGED <<vendors, ids>>
          /\ SaveState

\* The customer's "get my location" button, once the provider has answered loc.
GetMyLoc(loc) ==
  /\ out' = <<>>
  /\ UNCHANGED <<vendors, products, orders, demoFlag, settings, ids, cart, timers,
                 nextScanAt, proximityInterval, armed, lastProxNotified, modalOrder, now, setUp, proxSeen,
                 proxEver, proxTo, favorites, permission, prompted, currentUserId>>
  /\ IF currentUserId \in DOMAIN users
     THEN /\ users' = [users EXCEPT ![currentUserId].loc = loc]
          /\ Idle
          /\ SaveState
     ELSE /\ Idle
          /\ UNCHANGED <<users, saved>>

\* The settings form: radius || DEFAULT_RADIUS_KM and the notification mode.
SaveSettings(r, mode) ==
  /\ settings' = [radius |-> IF r # 0 THEN r ELSE DefaultRadiusM, mode |-> mode]
  /\ Idle
  /\ out' = <<>>
  /\ UNCHANGED <<users, currentUserId, vendors, products, orders, saved, demoFlag, ids,
                 cart, timers, nextScanAt, proximityInterval, armed, lastProxNotified, modalOrder, now, setUp,
                 proxSeen, proxEver, proxTo, favorites, permission, prompted>>

---------------------------------------------------------------------------
(* Catalog and cart handlers *)

PriceInputs == {20}

\* The add-product form of a vendor user who owns a stall: addProductToVendor.
AddProduct(price) ==
  /\ out' = <<>>
  /\ UNCHANGED <<users, currentUserId, orders, demoFlag, settings, cart, timers,
                 nextScanAt, proximityInterval, armed, lastProxNotified, modalOrder, now, setUp, proxSeen, proxEver, proxTo, favorites, permission, prompted>>
  /\ IF \/ currentUserId \notin DOMAIN users
        \/ users[currentUserId].role # "vendor"
        \/ VendorOf(vendors, currentUserId) = 0
     THEN /\ Idle
          /\ UNCHANGED <<vendors, products, ids, saved>>
     ELSE LET v == VendorOf(vendors, currentUserId)
          IN  /\ Drawn(ids, demoFlag).p < MaxNewProducts
              /\ products' = products @@ (ids.p :> [vendorId |-> v, price |-> price])
              /\ vendors' = [vendors EXCEPT ![v].products = Append(@, ids.p)]
              /\ ids' = [ids EXCEPT !.p = @ + 1]
              /\ Idle
              /\ SaveState

\* What the price field of the add-product form holds: nothing, a number in
\* decimal notation, or other text.
RawPrices ==
  {[txt |-> "empty", n |-> 0], [txt |-> "number", n |-> 20], [txt |-> "number", n |-> 0],
   [txt |-> "number", n |-> -5], [txt |-> "other", n |-> 0]}

\* Number(text): 0 for the empty string, the number written, NaN for other text.
NumberOf(raw) == [nan |-> raw.txt = "other", n |-> IF raw.txt = "number" THEN raw.n ELSE 0]

\* Variant of PriceCoerced that maps a negative number to 0.
PriceClamped(v) == IF v.nan \/ v.n < 0 THEN 0 ELSE v.n

\* Number(price) || 0 on a number v: 0 for NaN and for 0, else v itself.
PriceCoerced(v) == IF v.nan \/ v.n = 0 THEN 0 ELSE v.n

\* addProductToVendor(vendorId, {price: v}): the product record is stored first;
\* pushing its id on the vendor's product list throws for a vendor id that is not
\* in state.vendors, before saveState.
addProductToVendor(vendorId, v) ==
  /\ Drawn(ids, demoFlag).p < MaxNewProducts
  /\ products' = products @@ (ids.p :> [vendorId |-> vendorId, price |-> PriceCoerced(v)])
  /\ ids' = [ids EXCEPT !.p = @ + 1]
  /\ out' = <<>>
  /\ UNCHANGED <<users, currentUserId, orders, demoFlag, settings, cart, timers,
                 nextScanAt, proximityInterval, armed, lastProxNotified, modalOrder, now, setUp, proxSeen, proxEver,
                 proxTo, favorites, permission, prompted>>
  /\ IF vendorId \notin DOMAIN vendors
     THEN /\ Did("addProduct", "threw")
          /\ UNCHANGED <<vendors, saved>>
     ELSE /\ vendors' = [vendors EXCEPT ![vendorId].products = Append(@, ids.p)]
          /\ Did("addProduct", "ok")
          /\ SaveState

\* The add-product button with raw in the price field: a vendor user who owns a
\* stall and filled in the price gets addProductToVendor(vendor.id, Number(price)).
AddProductForm(raw) ==
  IF \/ currentUserId \notin DOMAIN users
     \/ users[currentUserId].role # "vendor"
     \/ VendorOf(vendors, currentUserId) = 0
     \/ raw.txt = "empty"
  THEN /\ Did("addProduct", "refused")
       /\ out' = <<>>
       /\ UNCHANGED <<users, currentUserId, vendors, products, orders, saved, demoFlag,
                      settings, ids, cart, timers, nextScanAt, proximityInterval, armed, lastProxNotified,
                      modalOrder, now, setUp, proxSeen, proxEver, proxTo, favorites, permission,
                      prompted>>
  ELSE addProductToVendor(VendorOf(vendors, currentUserId), NumberOf(raw))

\* cartAdd(productId, 1): FALSE for an unknown product; else the product's line
\* gets one more, or a new line is appended; then ui.renderCart(), which may throw
\* before addActivity saves.
RECURSIVE CartQty(_)
CartQty(c) == IF c = <<>> THEN 0 ELSE Head(c).qty + CartQty(Tail(c))

LineOf(c, pid) == {i \in 1..Len(c) : c[i].productId = pid}

\* Variant of CartAdded that always appends a line.
CartAppended(c, ps, pid) ==
  Append(c, [productId |-> pid, vendorId |-> ps[pid].vendorId, qty |-> 1])

CartAdded(c, ps, pid) ==
  IF LineOf(c, pid) # {}
  THEN [c EXCEPT ![Min(LineOf(c, pid))].qty = @ + 1]
  ELSE Append(c, [productId |-> pid, vendorId |-> ps[pid].vendorId, qty |-> 1])

CartAdd(pid) ==
  /\ out' = <<>>
  /\ UNCHANGED <<users, currentUserId, vendors, products, orders, demoFlag, settings,
                 ids, timers, nextScanAt, proximityInterval, armed, lastProxNotified, modalOrder, now, setUp,
                 proxSeen, proxEver, proxTo, favorites, permission, prompted>>
  /\ IF pid \notin DOMAIN products
     THEN /\ Did("cartAdd", "false")
          /\ UNCHANGED <<cart, saved>>
     ELSE /\ CartQty(cart) < MaxCartQty
          /\ cart' = CartAdded(cart, products, pid)
          /\ IF RenderCartThrows(cart', products, vendors)
             THEN Did("cartAdd", "threw") /\ UNCHANGED saved
             ELSE Did("cartAdd", "true") /\ SaveState

\* cartRemove(productId), from the remove button ui.renderCart wired for a line.
CartRemove(pid) ==
  /\ ~RenderCartThrows(cart, products, vendors)
  /\ LineOf(cart, pid) # {}
  /\ cart' = SelectSeq(cart, LAMBDA it : it.productId # pid)
  /\ Idle
  /\ out' = <<>>
  /\ UNCHANGED <<users, currentUserId, vendors, products, orders, demoFlag, settings,
                 ids, timers, nextScanAt, proximityInterval, armed, lastProxNotified, modalOrder, now, setUp,
                 proxSeen, proxEver, proxTo, favorites, permission, prompted>>
  /\ SaveState

\* Variant of ClearedCart in which the cart keeps its lines.
KeptCart(c) == c

\* cartClear(): cart.items = [].
ClearedCart(c) == <<>>

\* The clear-cart button: cartClear().
CartClear ==
  /\ cart' = ClearedCart(cart)
  /\ Idle
  /\ out' = <<>>
  /\ UNCHANGED <<users, currentUserId, vendors, products, orders, saved, demoFlag,
                 settings, ids, timers, nextScanAt, proximityInterval, armed, lastProxNotified, modalOrder, now,
                 setUp, proxSeen, proxEver, proxTo, favorites, permission, prompted>>

\* Variant of cartSummary that counts every line, whether or not its product
\* resolves.
RECURSIVE SummaryOfAllLines(_, _)
SummaryOfAllLines(c, ps) ==
  IF c = <<>> THEN [subtotal |-> 0, count |-> 0]
  ELSE LET r == SummaryOfAllLines(Tail(c), ps)
           price == IF Head(c).productId \in DOMAIN ps THEN ps[Head(c).productId].price ELSE 0
       IN  [subtotal |-> price * Head(c).qty + r.subtotal, count |-> Head(c).qty + r.count]

\* cartSummary(): subtotal and count over the lines whose product is in
\* state.products; the other lines are skipped.
RECURSIVE cartSummary(_, _)
cartSummary(c, ps) ==
  IF c = <<>> THEN [subtotal |-> 0, count |-> 0]
  ELSE LET r == cartSummary(Tail(c), ps)
       IN  IF Head(c).productId \notin DOMAIN ps THEN r
           ELSE [subtotal |-> ps[Head(c).productId].price * Head(c).qty + r.subtotal,
                 count |-> Head(c).qty + r.count]

---------------------------------------------------------------------------
(* Checkout *)

\* Variant of VendorKeys in increasing order of vendor id.
VendorKeysSorted(c, seen) ==
  SortedSeq({c[i].vendorId : i \in 1..Len(c)} \ seen)

\* The keys of byVendor in for-in order: the cart's vendors by first appearance.
RECURSIVE VendorKeys(_, _)
VendorKeys(c, seen) ==
  IF c = <<>> THEN <<>>
  ELSE IF Head(c).vendorId \in seen THEN VendorKeys(Tail(c), seen)
  ELSE <<Head(c).vendorId>> \o VendorKeys(Tail(c), seen \cup {Head(c).vendorId})

\* Variant of ItemsOf that does not group: every line of the cart.
ItemsOfAnyVendor(c, vid) ==
  [i \in 1..Len(c) |-> [productId |-> c[i].productId, qty |-> c[i].qty]]

\* byVendor[vendorId]: the {productId, qty} of the cart's lines of that vendor.
RECURSIVE ItemsOf(_, _)
ItemsOf(c, vid) ==
  IF c = <<>> THEN <<>>
  ELSE IF Head(c).vendorId = vid
       THEN <<[productId |-> Head(c).productId, qty |-> Head(c).qty]>> \o ItemsOf(Tail(c), vid)
       ELSE ItemsOf(Tail(c), vid)

NewOrder(customerId, vid, c, sched) ==
  [customerId |-> customerId, vendorId |-> vid, items |-> ItemsOf(c, vid),
   schedule |-> sched, status |-> "pending"]

\* The creation loop of placeOrder over the vendor keys ks, the first order
\* getting id first.  The iteration of a vendor that is not in state.vendors puts
\* its order into state.orders and then throws on state.vendors[vendorId].orders.
\* made: the orders put into state.orders; linked: those also pushed on their
\* vendor's list.
LoopStops(ks, vs) == {i \in 1..Len(ks) : ks[i] \notin DOMAIN vs}

Made(ks, vs) == IF LoopStops(ks, vs) = {} THEN Len(ks) ELSE Min(LoopStops(ks, vs))

Linked(ks, vs) == IF LoopStops(ks, vs) = {} THEN Len(ks) ELSE Min(LoopStops(ks, vs)) - 1

OrdersWith(os, ks, k, first, customerId, c, sched) ==
  os @@ [id \in first..(first + k - 1) |-> NewOrder(customerId, ks[id - first + 1], c, sched)]

VendorsWith(vs, ks, k, first) ==
  [v \in DOMAIN vs |->
     IF \E i \in 1..k : ks[i] = v
     THEN [vs[v] EXCEPT !.orders = Append(@, first + (CHOOSE i \in 1..k : ks[i] = v) - 1)]
     ELSE vs[v]]

\* Variant of CheckoutRefused without the customer-id check.
RefusedEmptyCartOnly(customerId, c) == c = <<>>

\* Variant of CheckoutRefused without the empty-cart check.
RefusedLoggedOutOnly(customerId, c) == customerId = 0

\* The two early returns of placeOrder: no customer id, or an empty cart.
CheckoutRefused(customerId, c) == customerId = 0 \/ c = <<>>

\* placeOrder(customerId, scheduleIso) (sched 0: no schedule).
placeOrder(customerId, sched) ==
  IF CheckoutRefused(customerId, cart)
  THEN /\ Did("placeOrder", IF customerId = 0 THEN "notLoggedIn" ELSE "emptyCart")
       /\ out' = <<>>
       /\ UNCHANGED <<users, currentUserId, vendors, products, orders, saved, demoFlag,
                      settings, ids, cart, timers, nextScanAt, proximityInterval, armed, lastProxNotified,
                      modalOrder, now, setUp, proxSeen, proxEver, proxTo, favorites, permission, prompted>>
  ELSE LET ks == VendorKeys(cart, {})
           n == Made(ks, vendors)
           l == Linked(ks, vendors)
           new == ids.o..(ids.o + n - 1)
           os == OrdersWith(orders, ks, n, ids.o, customerId, cart, sched)
           vs == VendorsWith(vendors, ks, l, ids.o)
           r == ScheduleAll(SortedSeq(new), os, vs, users, currentUserId, settings.mode, now)
       IN  /\ ids.o + Len(ks) - 1 <= MaxOrders
           /\ orders' = os
           /\ vendors' = vs
           /\ ids' = [ids EXCEPT !.o = @ + n]
           /\ UNCHANGED <<users, currentUserId, products, demoFlag, settings, nextScanAt, proximityInterval, armed,
                          lastProxNotified, modalOrder, now, proxSeen, proxEver, proxTo, favorites, permission, prompted>>
           /\ IF n # l
              THEN \* thrown out of the creation loop
                   /\ Did("placeOrder", "threw")
                   /\ out' = <<>>
                   /\ setUp' = Recorded(setUp, new, TRUE)
                   /\ saved' = IF l = 0 THEN saved
                               ELSE Snapshot(users, currentUserId, vs, products,
                                             OrdersWith(orders, ks, l, ids.o, customerId, cart, sched),
                                             favorites)
                   /\ UNCHANGED <<cart, timers>>
              ELSE /\ cart' = ClearedCart(cart)
                   /\ timers' = timers \cup r.timers
                   /\ out' = ReadyEvents(r.ready)
                   /\ setUp' = AfterSchedule(Recorded(setUp, new, TRUE), r)
                   /\ Did("placeOrder", IF r.threw THEN "threwNotify" ELSE "ok")
                   /\ SaveState

\* The schedules the checkout form holds at time t: none (0), and a future one
\* whose timer falls within the clock's bound.
SchedInputs(t) ==
  {0} \cup {w \in {t + GraceMs} : w + GraceMs <= StartMs + MaxOrderTicks * 2 * GraceMs}

\* The place-order button: only a logged-in customer gets to placeOrder.
PlaceOrderClick(sched) ==
  IF \/ currentUserId = 0
     \/ currentUserId \notin DOMAIN users
     \/ users[currentUserId].role # "customer"
  THEN /\ Idle
       /\ out' = <<>>
       /\ UNCHANGED <<users, currentUserId, vendors, products, orders, saved, demoFlag,
                      settings, ids, cart, timers, nextScanAt, proximityInterval, armed, lastProxNotified,
                      modalOrder, now, setUp, proxSeen, proxEver, proxTo, favorites, permission, prompted>>
  ELSE placeOrder(currentUserId, sched)

---------------------------------------------------------------------------
(* Order status *)

\* updateOrderStatus(orderId, status): the
\* status is assigned as given.
updateOrderStatus(oid, status) ==
  /\ Idle
  /\ out' = <<>>
  /\ UNCHANGED <<users, currentUserId, vendors, products, demoFlag, settings, ids, cart,
                 timers, nextScanAt, proximityInterval, armed, lastProxNotified, modalOrder, now, setUp, proxSeen,
                 proxEver, proxTo, favorites, permission, prompted>>
  /\ IF oid \notin DOMAIN orders
     THEN UNCHANGED <<orders, saved>>
     ELSE /\ orders' = [orders EXCEPT ![oid].status = status]
          /\ SaveState

\* The orders ui.renderOrders lists for the current user: a customer's own
\* orders, or the orders of the stall a vendor user owns.
ListedOrders ==
  IF currentUserId \notin DOMAIN users THEN {}
  ELSE IF users[currentUserId].role = "customer"
       THEN {o \in DOMAIN orders : orders[o].customerId = currentUserId}
  ELSE IF users[currentUserId].role = "vendor" /\ VendorOf(vendors, currentUserId) # 0
       THEN Range(vendors[VendorOf(vendors, currentUserId)].orders) \cap DOMAIN orders
  ELSE {}

\* The Accept and Complete buttons of the order lists, which only a vendor user's
\* lists carry: Accept on a pending order, Complete on an accepted one.
VendorButtons(status) ==
  IF currentUserId \in DOMAIN users /\ users[currentUserId].role = "vendor"
  THEN {o \in ListedOrders : orders[o].status = status} ELSE {}

AcceptOrder(oid) ==
  /\ oid \in VendorButtons("pending")
  /\ updateOrderStatus(oid, "accepted")

CompleteOrder(oid) ==
  /\ oid \in VendorButtons("accepted")
  /\ updateOrderStatus(oid, "completed")

\* The View button of a listed order: openOrderModal wires the modal's accept and
\* complete buttons to the order, whatever its status and whoever looks at it.
OpenOrderModal(oid) ==
  /\ oid \in ListedOrders
  /\ modalOrder' = oid
  /\ Idle
  /\ out' = <<>>
  /\ UNCHANGED <<users, currentUserId, vendors, products, orders, saved, demoFlag,
                 settings, ids, cart, timers, nextScanAt, proximityInterval, armed, lastProxNotified, now, setUp,
                 proxSeen, proxEver, proxTo, favorites, permission, prompted>>

ModalAccept ==
  /\ modalOrder # 0
  /\ updateOrderStatus(modalOrder, "accepted")

ModalComplete ==
  /\ modalOrder # 0
  /\ updateOrderStatus(modalOrder, "completed")

---------------------------------------------------------------------------
(* Browser notifications *)

Permissions == {"none", "default", "granted", "denied"}

\* The then-callback of Notification.requestPermission(): a platform notification
\* when the prompt was granted, nothing otherwise.
PromptOutcome(answer) == IF answer = "granted" THEN "platform" ELSE "dropped"

\* ui.browserNotify(title, body) as a function of Notification.permission: where
\* the notification is shown ("asked": a permission prompt is raised first).
browserNotify(perm) ==
  IF perm = "none" THEN "toast"
  ELSE IF perm = "granted" THEN "platform"
  ELSE IF perm # "denied" THEN "asked"
  ELSE "toast"

\* A handler in browser mode hands one notification to ui.browserNotify.
BrowserNotify ==
  /\ settings.mode = "browser"
  /\ Did("browserNotify", browserNotify(permission))
  /\ prompted' = IF browserNotify(permission) = "asked" THEN prompted + 1 ELSE prompted
  /\ prompted' <= MaxPrompted
  /\ out' = <<>>
  /\ UNCHANGED <<users, currentUserId, vendors, products, orders, saved, demoFlag,
                 settings, ids, cart, timers, nextScanAt, proximityInterval, armed, lastProxNotified, modalOrder,
                 now, setUp, proxSeen, proxEver, proxTo, favorites, permission>>

\* The user answers the permission prompt (answer "default": the prompt is
\* dismissed): every waiting requestPermission() promise resolves with the answer.
PromptAnswered(answer) ==
  /\ prompted > 0
  /\ permission = "default"
  /\ permission' = answer
  /\ prompted' = 0
  /\ Did("prompt", PromptOutcome(answer))
  /\ out' = <<>>
  /\ UNCHANGED <<users, currentUserId, vendors, products, orders, saved, demoFlag,
                 settings, ids, cart, timers, nextScanAt, proximityInterval, armed, lastProxNotified, modalOrder,
                 now, setUp, proxSeen, proxEver, proxTo, favorites>>

\* The platform's side: the page runs where there is no Notification API, or the
\* user sets the site's notification permission in the browser's settings.  No
\* prompt is open while this happens.
PermissionSet(perm) ==
  /\ prompted = 0
  /\ permission' = perm
  /\ Idle
  /\ out' = <<>>
  /\ UNCHANGED <<users, currentUserId, vendors, products, orders, saved, demoFlag,
                 settings, ids, cart, timers, nextScanAt, proximityInterval, armed, lastProxNotified, modalOrder,
                 now, setUp, proxSeen, proxEver, proxTo, favorites, prompted>>

---------------------------------------------------------------------------
(* Favorites *)

\* state.favorites[uid] || []
FavsOf(fs, u) == IF u \in DOMAIN fs THEN fs[u] ELSE <<>>

\* arr.splice(arr.indexOf(v), 1): arr without the first v.
Spliced(arr, v) ==
  LET i == Min({k \in 1..Len(arr) : arr[k] = v})
  IN  SubSeq(arr, 1, i - 1) \o SubSeq(arr, i + 1, Len(arr))

\* Variant of Toggled that pushes without looking for the vendor.
ToggledByPush(arr, v) == Append(arr, v)

\* The list toggleFavorite leaves: v spliced out when indexOf finds it, pushed
\* otherwise.
Toggled(arr, v) == IF v \in Range(arr) THEN Spliced(arr, v) ELSE Append(arr, v)

\* state.favorites with the list of user u set to arr.
WithFavs(fs, u, arr) == [x \in DOMAIN fs \cup {u} |-> IF x = u THEN arr ELSE fs[x]]

\* toggleFavorite(vendorId), from the heart button of a vendor card.  The activity
\* line reads the vendor's name after the list was changed and before saveState.
toggleFavorite(vendorId) ==
  /\ out' = <<>>
  /\ UNCHANGED <<users, currentUserId, vendors, products, orders, demoFlag, settings,
                 ids, cart, timers, nextScanAt, proximityInterval, armed, lastProxNotified,
                 modalOrder, now, setUp, proxSeen, proxEver, proxTo, permission, prompted>>
  /\ IF currentUserId = 0
     THEN /\ Did("toggleFavorite", "refused")
          /\ UNCHANGED <<favorites, saved>>
     ELSE /\ favorites' = WithFavs(favorites, currentUserId,
                                   Toggled(FavsOf(favorites, currentUserId), vendorId))
          /\ IF vendorId \notin DOMAIN vendors
             THEN /\ Did("toggleFavorite", "threw")
                  /\ UNCHANGED saved
             ELSE /\ Did("toggleFavorite",
                         IF vendorId \in Range(FavsOf(favorites, currentUserId))
                         THEN "removed" ELSE "added")
                  /\ SaveState

\* removeFavorite(vendorId), from the Remove button of the favorites list.
removeFavorite(vendorId) ==
  /\ out' = <<>>
  /\ UNCHANGED <<users, currentUserId, vendors, products, orders, demoFlag, settings,
                 ids, cart, timers, nextScanAt, proximityInterval, armed, lastProxNotified,
                 modalOrder, now, setUp, proxSeen, proxEver, proxTo, permission, prompted>>
  /\ IF currentUserId = 0
     THEN /\ Did("removeFavorite", "refused")
          /\ UNCHANGED <<favorites, saved>>
     ELSE /\ favorites' = WithFavs(favorites, currentUserId,
                                   IF vendorId \in Range(FavsOf(favorites, currentUserId))
                                   THEN Spliced(FavsOf(favorites, currentUserId), vendorId)
                                   ELSE FavsOf(favorites, currentUserId))
          /\ Did("removeFavorite", "ok")
          /\ SaveState

---------------------------------------------------------------------------
(* Timers and the clock *)

\* Variant of StillPending that does not read the status.
StillThere(os, id) == id \in DOMAIN os

\* The check of the deferred callback: the order is still there and still pending.
StillPending(os, id) == id \in DOMAIN os /\ os[id].status = "pending"

\* Variant of TimerOutcome without the check that the order is still there: the
\* read of fresh.status raises for an order that is gone.
TimerOutcomeUnchecked(os, vs, us, cur, mode, id) ==
  IF id \notin DOMAIN os THEN "threw"
  ELSE IF ~StillPending(os, id) THEN "skipped"
  ELSE IF NotifyThrows(os[id], vs, us, cur, mode) THEN "threw"
  ELSE "notified"

\* How the deferred callback ends for order id: it returns when the order is gone
\* and when it is no longer pending, and calls notifyOrderNew otherwise.
TimerOutcome(os, vs, us, cur, mode, id) ==
  IF id \notin DOMAIN os THEN "skipped"
  ELSE IF ~StillPending(os, id) THEN "skipped"
  ELSE IF NotifyThrows(os[id], vs, us, cur, mode) THEN "threw"
  ELSE "notified"

\* The callback scheduleOrderProcessing deferred for order t.id fires.
TimerFire(t) ==
  /\ t \in timers
  /\ now >= t.at
  /\ timers' = timers \ {t}
  /\ UNCHANGED <<users, currentUserId, vendors, products, orders, demoFlag, settings,
                 ids, cart, nextScanAt, proximityInterval, armed, lastProxNotified, modalOrder, now, proxSeen,
                 proxEver, proxTo, favorites, permission, prompted>>
  /\ Did("timer", TimerOutcome(orders, vendors, users, currentUserId, settings.mode, t.id))
  /\ IF TimerOutcome(orders, vendors, users, currentUserId, settings.mode, t.id) # "notified"
     THEN /\ out' = <<>>
          /\ UNCHANGED <<setUp, saved>>
     ELSE /\ out' = <<Ev("ready", t.id)>>
          /\ setUp' = [setUp EXCEPT ![t.id].rdy = @ + 1]
          /\ SaveState

\* Variant of Rearmed in which a callback that ran leaves the interval spent.
RearmSkipped(at) == at

\* setInterval(proximityScanOnce, 12 * 1000): the interval fires again one period
\* after the firing at time at, however the callback ended.
Rearmed(at) == at + ScanIntervalMs

\* The interval of startProximityMonitor fires: one proximityScanOnce.
IntervalScan ==
  /\ now >= nextScanAt
  /\ LET N == ScanSet(users, currentUserId, vendors, settings, lastProxNotified, now)
     IN  /\ lastProxNotified' = Stamp(lastProxNotified, N, now)
         /\ proxSeen' = Stamp(proxSeen, N, now)
         /\ proxEver' = Stamp(proxEver, N, now)
         /\ proxTo' = Stamp(proxTo, N, currentUserId)
         /\ UNCHANGED <<permission, prompted, proximityInterval, armed, favorites>>
         /\ out' = ProxEvents(N)
         /\ Did("scan", IF N = {} THEN "quiet" ELSE "notified")
         /\ UNCHANGED <<users, currentUserId, vendors, products, orders, demoFlag,
                        settings, ids, cart, timers, modalOrder, now, setUp>>
         /\ IF N = {} THEN UNCHANGED saved ELSE SaveState
  /\ nextScanAt' = Rearmed(nextScanAt)

\* The interval fires and the scan throws while notifying about vendor v (new
\* Notification(...) of ui.browserNotify raises where the page may not construct
\* one): v is already stamped in lastProxNotified, the vendors before v in key
\* order were notified about and recorded, the catch of proximityScanOnce ends the
\* scan, and the vendors after v are not reached.
IntervalScanFails(v) ==
  /\ now >= nextScanAt
  /\ settings.mode = "browser"
  /\ v \in ScanSet(users, currentUserId, vendors, settings, lastProxNotified, now)
  /\ LET N == {w \in ScanSet(users, currentUserId, vendors, settings, lastProxNotified, now) : w < v}
     IN  /\ lastProxNotified' = Stamp(lastProxNotified, N \cup {v}, now)
         /\ proxSeen' = Stamp(proxSeen, N, now)
         /\ proxEver' = Stamp(proxEver, N, now)
         /\ proxTo' = Stamp(proxTo, N, currentUserId)
         /\ UNCHANGED <<permission, prompted, proximityInterval, armed, favorites>>
         /\ out' = ProxEvents(N)
         /\ Did("scan", "failed")
         /\ UNCHANGED <<users, currentUserId, vendors, products, orders, demoFlag,
                        settings, ids, cart, timers, modalOrder, now, setUp>>
         /\ IF N = {} THEN UNCHANGED saved ELSE SaveState
  /\ nextScanAt' = Rearmed(nextScanAt)

\* Time passes: d milliseconds, at most n times.  A due interval callback runs
\* before the clock moves on.
Tick(d, n) ==
  /\ now + d <= StartMs + n * d
  /\ now < nextScanAt
  /\ now' = now + d
  /\ Idle
  /\ out' = <<>>
  /\ UNCHANGED <<users, currentUserId, vendors, products, orders, saved, demoFlag,
                 settings, ids, cart, timers, nextScanAt, proximityInterval, armed, lastProxNotified, modalOrder,
                 setUp, proxSeen, proxEver, proxTo, favorites, permission, prompted>>

---------------------------------------------------------------------------
(* Page load *)

\* The page is loaded again: init() over what localStorage holds.  The cart, the
\* timers, the cooldown table and the modal's wiring start afresh; loadState
\* restores the saved snapshot; startProximityMonitor scans; every stored order
\* goes through scheduleOrderProcessing, in key order, until a call throws.
Restart ==
  LET N == ScanSet(saved.users, saved.currentUserId, saved.vendors, settings, Empty, now)
      r == ScheduleAll(SortedSeq(DOMAIN saved.orders), saved.orders, saved.vendors,
                       saved.users, saved.currentUserId, settings.mode, now)
  IN  /\ users' = saved.users
      /\ currentUserId' = saved.currentUserId
      /\ vendors' = saved.vendors
      /\ products' = saved.products
      /\ orders' = saved.orders
      /\ cart' = <<>>
      /\ modalOrder' = 0
      /\ nextScanAt' = now + ScanIntervalMs
      /\ lastProxNotified' = Stamp(Empty, N, now)
      /\ proxSeen' = Stamp(Empty, N, now)
      /\ proxEver' = Stamp(proxEver, N, now)
      /\ proxTo' = Stamp(proxTo, N, saved.currentUserId)
      /\ UNCHANGED <<permission, prompted>>
      /\ proximityInterval' = NewHandle({})
      /\ armed' = {NewHandle({})}
      /\ favorites' = saved.favorites
      /\ timers' = r.timers
      /\ setUp' = AfterSchedule(Recorded(Empty, DOMAIN saved.orders, FALSE), r)
      /\ out' = ProxEvents(N) \o ReadyEvents(r.ready)
      /\ Did("init", IF r.threw THEN "threw" ELSE "ok")
      /\ UNCHANGED <<saved, demoFlag, settings, ids, now>>

---------------------------------------------------------------------------
(* Specifications *)

\* The phones typed at login: empty (0), a phone of one's own, the demo customer's,
\* and the generated phone of the user who owns the first stall.
LoginPhones ==
  (0..NumPhones)
  \cup {users[u].phone : u \in {x \in DOMAIN users : users[x].role = "customer"}}
  \cup {users[vendors[v].userId].phone : v \in {x \in DOMAIN vendors : x = Min(DOMAIN vendors)}}

\* The products whose add-to-cart button is clicked: those added through the form
\* before the demo load, and the first three of the demo data.
ClickedProducts == (1..MaxNewProducts) \cup (DemoIds.p..(DemoIds.p + 2))

\* The logins of every specification: users sign up before the demo load; after
\* it the demo customer and the first stall's owner log in.
Login ==
  \E phone \in {x \in LoginPhones : demoFlag => FindUserByPhone(users, x) # 0},
     role \in Roles : HandleLogin(phone, role)

\* A vendor user sets the stall's location (the stall is created when the user
\* owns none).
StallGps(loc) ==
  /\ currentUserId \in DOMAIN users
  /\ users[currentUserId].role = "vendor"
  /\ UseGps(loc)

\* The checkout: a catalog set up before the demo load, the cart, placeOrder and
\* the processing it schedules.
Next ==
  \/ Login
  \/ QuickDemo
  \/ Restart
  \/ StallGps(1)
  \/ \E price \in PriceInputs : ~demoFlag /\ AddProduct(price)
  \/ \E pid \in ClickedProducts \cap (1..(ids.p - 1)) : CartAdd(pid)
  \/ \E pid \in ClickedProducts : CartRemove(pid)
  \/ CartClear
  \/ \E sched \in SchedInputs(now) : PlaceOrderClick(sched)
  \/ \E t \in timers : TimerFire(t)
  \/ Tick(2 * GraceMs, MaxOrderTicks)

Spec == Init /\ [][Next]_vars

\* The status of an order: the lists' and the modal's accept and complete, over
\* orders of one product.
StatusNext ==
  \/ Login
  \/ QuickDemo
  \/ cart = <<>> /\ CartAdd(DemoIds.p)
  \/ \E sched \in SchedInputs(now) : PlaceOrderClick(sched)
  \/ \E oid \in DOMAIN orders : AcceptOrder(oid)
  \/ \E oid \in DOMAIN orders : CompleteOrder(oid)
  \/ \E oid \in DOMAIN orders : OpenOrderModal(oid)
  \/ ModalAccept
  \/ ModalComplete
  \/ \E t \in timers : TimerFire(t)
  \/ Tick(2 * GraceMs, MaxOrderTicks)

StatusSpec == Init /\ [][StatusNext]_vars

\* The proximity monitor: locations, settings, scans and the clock of the scans.
ProxNext ==
  \/ Login
  \/ Logout
  \/ QuickDemo
  \/ Restart
  \/ \E loc \in {4, 5} : UseGps(loc)
  \/ GetMyLoc(4)
  \/ \E r \in {0, 300} : SaveSettings(r, settings.mode)
  \/ IntervalScan
  \/ Tick(ScanIntervalMs, MaxProxTicks)

ProxSpec == Init /\ [][ProxNext]_vars

\* The proximity monitor of the demo customer where showing a notification may
\* raise an error: the scans of the interval, some of which fail part-way.
ScanErrNext ==
  \/ QuickDemo
  \/ GetMyLoc(4)
  \/ \E mode \in {"popup", "browser"} : SaveSettings(0, mode)
  \/ IntervalScan
  \/ \E v \in DOMAIN vendors : IntervalScanFails(v)
  \/ Tick(ScanIntervalMs, MaxProxTicks)

ScanErrSpec == Init /\ [][ScanErrNext]_vars

\* The proximity monitor handed from one customer to another on the same page:
\* the demo customer and a second customer log in in turn and report the same
\* location.
HandoverNext ==
  \/ QuickDemo
  \/ \E phone \in {1, DemoPhone} : demoFlag /\ HandleLogin(phone, "customer")
  \/ GetMyLoc(4)
  \/ Restart
  \/ IntervalScan
  \/ Tick(ScanIntervalMs, MaxProxTicks)

HandoverSpec == Init /\ [][HandoverNext]_vars

\* An id that no uid() call returns.
UnknownId == -1

\* The functions the page exposes on window (addProductToVendor, SV.placeOrder)
\* called next to the forms: sign-up, stalls, the add-product form with every kind
\* of price, the cart, and checkouts with and without a customer id.
ConsoleNext ==
  \/ Login
  \/ Logout
  \/ QuickDemo
  \/ StallGps(1)
  \/ \E raw \in RawPrices : AddProductForm(raw)
  \/ \E vendorId \in {UnknownId}, raw \in {r \in RawPrices : r.n = 20} :
       addProductToVendor(vendorId, NumberOf(raw))
  \/ \E pid \in ClickedProducts \cap (1..(ids.p - 1)) : CartAdd(pid)
  \/ placeOrder(0, 0)
  \/ PlaceOrderClick(0)

ConsoleSpec == Init /\ [][ConsoleNext]_vars

\* Notifications in browser mode: the notification mode of the settings, the
\* permission of the platform, requests to ui.browserNotify and the answers to
\* the prompts they raise, while the interval of the monitor keeps firing.
NotifyNext ==
  \/ \E mode \in {"popup", "browser"} : SaveSettings(settings.radius, mode)
  \/ \E perm \in Permissions : PermissionSet(perm)
  \/ BrowserNotify
  \/ \E answer \in {"granted", "denied", "default"} : PromptAnswered(answer)
  \/ IntervalScan
  \/ Tick(ScanIntervalMs, MaxProxTicks)

NotifySpec == Init /\ [][NotifyNext]_vars

\* The status of an order across page loads: the status specification with the
\* page being loaded again.
ReloadNext ==
  \/ StatusNext
  \/ Restart

ReloadSpec == Init /\ [][ReloadNext]_vars

\* Deferred processing across a demo load: a stall and a product set up before
\* the demo load, orders with a future schedule placed with the exposed
\* SV.placeOrder for the logged-in user, the demo load, and the timers that fire
\* after it.
ReplacedNext ==
  \/ Login
  \/ QuickDemo
  \/ StallGps(1)
  \/ \E price \in PriceInputs : ~demoFlag /\ AddProduct(price)
  \/ \E pid \in ClickedProducts \cap (1..(ids.p - 1)) : CartAdd(pid)
  \/ \E sched \in SchedInputs(now) \ {0} : currentUserId # 0 /\ placeOrder(currentUserId, sched)
  \/ \E t \in timers : TimerFire(t)
  \/ Tick(2 * GraceMs, MaxOrderTicks)

ReplacedSpec == Init /\ [][ReplacedNext]_vars

\* Favorites: the heart buttons of the vendor cards, pressed with and without a
\* user logged in, and the Remove buttons of the favorites list, across logins,
\* the demo load and page loads.
FavNext ==
  \/ Login
  \/ Logout
  \/ QuickDemo
  \/ Restart
  \/ \E vendorId \in DOMAIN vendors : toggleFavorite(vendorId)
  \/ \E vendorId \in Range(FavsOf(favorites, currentUserId)) \cap DOMAIN vendors :
       removeFavorite(vendorId)

FavSpec == Init /\ [][FavNext]_vars

---------------------------------------------------------------------------
(* Properties *)

\* The ids of the notifications of kind k among the events o.
Notified(o, k) == {o[i].id : i \in {j \in 1..Len(o) : o[j].k = k}}

\* The vendors of the cart c, and the lines of vendor v as an order carries them.
CartVendors(c) == {c[i].vendorId : i \in 1..Len(c)}

LinesOfVendor(c, v) ==
  {[productId |-> c[i].productId, qty |-> c[i].qty] : i \in {j \in 1..Len(c) : c[j].vendorId = v}}

\* C1: a successful placeOrder on a non-empty cart whose lines span N vendors
\* creates exactly N new orders, one per vendor, each pending and holding exactly
\* the lines of its vendor (same products and quantities); the orders there
\* before are untouched and the cart is empty afterwards.
C1_SplitPerVendor ==
  [][(op' = [name |-> "placeOrder", res |-> "ok"]) =>
       LET new == DOMAIN orders' \ DOMAIN orders
       IN  /\ cart # <<>>
           /\ Cardinality(new) = Cardinality(CartVendors(cart))
           /\ \A v \in CartVendors(cart) :
                \E o \in new :
                  /\ orders'[o].vendorId = v
                  /\ orders'[o].status = "pending"
                  /\ Range(orders'[o].items) = LinesOfVendor(cart, v)
                  /\ Len(orders'[o].items) = Cardinality(LinesOfVendor(cart, v))
           /\ \A o \in DOMAIN orders : orders'[o] = orders[o]
           /\ cart' = <<>>]_vars

\* A checkout has just split a cart of two vendors into two orders, both
\* announced at once.
C1_Witness ==
  /\ op = [name |-> "placeOrder", res |-> "ok"]
  /\ cart = <<>>
  /\ Len(out) = 2
  /\ orders[out[1].id].vendorId # orders[out[2].id].vendorId

\* C2: placeOrder is all-or-nothing: a call either creates one order per vendor
\* of the cart and empties the cart, or leaves the order set, the vendors' order
\* lists and the cart as they were.
C2_AllOrNothing ==
  [][(op'.name = "placeOrder") =>
       \/ /\ cart # <<>>
          /\ Cardinality(DOMAIN orders' \ DOMAIN orders) = Cardinality(CartVendors(cart))
          /\ cart' = <<>>
       \/ /\ orders' = orders
          /\ DOMAIN vendors' = DOMAIN vendors
          /\ \A v \in DOMAIN vendors : vendors'[v].orders = vendors[v].orders
          /\ cart' = cart]_vars

\* C3: no order changes from pending directly to completed.
C3_NoPendingToCompleted ==
  [][\A o \in DOMAIN orders \cap DOMAIN orders' :
       orders[o].status = "pending" => orders'[o].status \in {"pending", "accepted"}]_vars

\* C4: once an order's status is completed or cancelled, no step changes it.
C4_TerminalAbsorbing ==
  [][\A o \in DOMAIN orders \cap DOMAIN orders' :
       orders[o].status \in {"completed", "cancelled"}
         => orders'[o].status = orders[o].status]_vars

\* C5: every order placeOrder created in this page load has exactly one
\* immediate announcement or exactly one deferred timer set up for it, and no
\* order is announced as ready more than once in one page load.
C5_ScheduledOnce ==
  \A o \in DOMAIN setUp :
    /\ setUp[o].rdy <= 1
    /\ setUp[o].made => setUp[o].imm + setUp[o].tmr = 1

\* C6: when a deferred timer fires, the order-ready notification is emitted only
\* for an order that is pending at that moment; for an order that is no longer
\* pending the callback emits nothing and changes nothing.
C6_TimerRechecksStatus ==
  [][(op'.name = "timer") =>
       \E t \in timers :
         /\ timers' = timers \ {t}
         /\ out' # <<>> =>
              /\ out' = <<Ev("ready", t.id)>>
              /\ t.id \in DOMAIN orders
              /\ orders[t.id].status = "pending"
         /\ ~(t.id \in DOMAIN orders /\ orders[t.id].status = "pending") =>
              /\ out' = <<>>
              /\ UNCHANGED <<orders, vendors, users, products, cart, saved, setUp>>]_vars

\* The timer of an order accepted or completed while it waited has fired and
\* announced nothing.
C6_Witness ==
  /\ op = [name |-> "timer", res |-> "skipped"]
  /\ \E o \in DOMAIN orders :
       /\ orders[o].status # "pending"
       /\ setUp[o].tmr = 1
       /\ setUp[o].rdy = 0
       /\ \A t \in timers : t.id # o

\* The steps in which proximityScanOnce runs: the interval's callback, a login
\* that reaches startProximityMonitor, and a page load.
ScanRan ==
  \/ op'.name = "scan"
  \/ op' = [name |-> "login", res |-> "ok"]
  \/ op'.name = "init"

\* The cooldown table the scan of the step starts from (a page load starts from
\* an empty one).
TableRead == IF op'.name = "init" THEN Empty ELSE lastProxNotified

\* At the scan of the step a customer with a location is logged in.
CustomerLocated ==
  /\ currentUserId' # 0
  /\ currentUserId' \in DOMAIN users'
  /\ users'[currentUserId'].role = "customer"
  /\ users'[currentUserId'].loc # 0

\* At the scan of the step vendor v is active, has a location and is within the
\* configured radius of the customer.
Nearby(v) ==
  /\ CustomerLocated
  /\ v \in DOMAIN vendors'
  /\ vendors'[v].active
  /\ vendors'[v].loc # 0
  /\ DistTable[users'[currentUserId'].loc][vendors'[v].loc] <= settings'.radius

C9_IneligibleScanSilent ==
  [][(ScanRan /\ ~CustomerLocated) =>
       /\ Notified(out', "prox") = {}
       /\ lastProxNotified' = TableRead]_vars

\* An interval scan has just run for a vendor user who has a location, while the
\* table holds a timestamp of a vendor that is active and within the radius of
\* that location.
C9_Witness ==
  /\ op = [name |-> "scan", res |-> "quiet"]
  /\ currentUserId \in DOMAIN users
  /\ users[currentUserId].role = "vendor"
  /\ users[currentUserId].loc # 0
  /\ \E v \in DOMAIN vendors \cap DOMAIN lastProxNotified :
       /\ vendors[v].active
       /\ DistTable[users[currentUserId].loc][vendors[v].loc] <= settings.radius

\* C10: a proximity notification is emitted, and a cooldown timestamp written,
\* only for a vendor that at scan time is active, has a location and is within
\* the configured radius of the customer.
C10_OnlyNearbyActive ==
  [][\A v \in Notified(out', "prox") \cup DOMAIN lastProxNotified' :
       (\/ v \in Notified(out', "prox")
        \/ v \notin DOMAIN TableRead
        \/ lastProxNotified'[v] # TableRead[v])
         => Nearby(v)]_vars

\* An interval scan has just notified about the vendors nearby while an inactive
\* vendor within the radius and an active one outside it got neither a
\* notification nor a timestamp.
C10_Witness ==
  /\ op = [name |-> "scan", res |-> "notified"]
  /\ \E v \in DOMAIN vendors \ DOMAIN lastProxNotified :
       /\ ~vendors[v].active
       /\ DistTable[users[currentUserId].loc][vendors[v].loc] <= settings.radius
  /\ \E v \in DOMAIN vendors \ DOMAIN lastProxNotified :
       /\ vendors[v].active
       /\ DistTable[users[currentUserId].loc][vendors[v].loc] > settings.radius

\* C11: a scan that raises an error ends inside its own catch: the interval stays
\* armed for one period later, a time still to come, and the error reaches
\* nothing but the scan's own notifications and timestamps.
C11_FailedScanKeepsSchedule ==
  [][(op' = [name |-> "scan", res |-> "failed"]) =>
       /\ nextScanAt' = nextScanAt + ScanIntervalMs
       /\ nextScanAt' > now'
       /\ UNCHANGED <<users, currentUserId, vendors, products, orders, cart, timers,
                      settings, now>>]_vars

\* A scan of the interval has run to its end after an earlier scan failed at a
\* vendor: that vendor holds a timestamp no notification went with.
C11_Witness ==
  /\ op.name = "scan"
  /\ op.res \in {"quiet", "notified"}
  /\ \E v \in DOMAIN lastProxNotified :
       /\ v \notin DOMAIN proxSeen
       /\ lastProxNotified[v] < now

C13_DueOrderAnnouncedAtCheckout ==
  [][(op'.name = "placeOrder") =>
       \A o \in DOMAIN orders' \ DOMAIN orders :
         (orders'[o].schedule = 0 \/ orders'[o].schedule <= now)
           => /\ o \in Notified(out', "ready")
              /\ \A t \in timers' : t.id # o]_vars

\* C14: an order created with a schedule later than the current time is not
\* announced by the checkout, which sets one timer for it at the schedule plus the
\* grace buffer when it returns; and in a page load that has set a timer for an
\* order, the order is announced by that timer only, not before the scheduled
\* instant and not twice.
C14_FutureOrderWaitsForTimer ==
  [][/\ (op'.name = "placeOrder") =>
          \A o \in DOMAIN orders' \ DOMAIN orders :
            (orders'[o].schedule # 0 /\ orders'[o].schedule > now)
              => /\ o \notin Notified(out', "ready")
                 /\ (op'.res = "ok") =>
                      {t \in timers' : t.id = o}
                        = {[id |-> o, at |-> orders'[o].schedule + GraceMs]}
     /\ (op'.name # "init") =>
          \A o \in Notified(out', "ready") \cap DOMAIN setUp :
            setUp[o].tmr > 0 =>
              /\ op'.name = "timer"
              /\ now' >= orders[o].schedule + GraceMs
              /\ setUp[o].rdy = 0
              /\ \A t \in timers' : t.id # o]_vars

\* The timer of an order placed with a later schedule has fired, after the
\* scheduled instant and the grace buffer, and announced the order for the first
\* time in this page load.
C14_Witness ==
  /\ op = [name |-> "timer", res |-> "notified"]
  /\ \E o \in DOMAIN orders \cap DOMAIN setUp :
       /\ out = <<Ev("ready", o)>>
       /\ orders[o].schedule # 0
       /\ now >= orders[o].schedule + GraceMs
       /\ setUp[o] = [made |-> TRUE, imm |-> 0, tmr |-> 1, rdy |-> 1]

\* C15: a page load keeps no timer of the page before it and schedules every
\* stored order again: an order with no schedule or a past one is announced by the
\* load, an order with a later schedule gets a new timer.
C15_RestartReschedulesAll ==
  [][(op'.name = "init") =>
       /\ \A o \in DOMAIN saved.orders :
            IF saved.orders[o].schedule = 0 \/ saved.orders[o].schedule <= now
            THEN o \in Notified(out', "ready")
            ELSE [id |-> o, at |-> saved.orders[o].schedule + GraceMs] \in timers'
       /\ \A t \in timers' :
            /\ t.id \in DOMAIN saved.orders
            /\ saved.orders[t.id].schedule > now]_vars

\* C16: from every pending or accepted order some operation leads to the status
\* cancelled.
C16_CancelAvailable ==
  \A o \in DOMAIN orders :
    orders[o].status \in {"pending", "accepted"}
      => ENABLED (StatusNext /\ o \in DOMAIN orders' /\ orders'[o].status = "cancelled")

\* C17: a step changes an order's status to accepted or completed only while the
\* logged-in user is the vendor user who owns the order's vendor.
C17_OnlyVendorOperatorAdvances ==
  [][\A o \in DOMAIN orders \cap DOMAIN orders' :
       (orders'[o].status # orders[o].status /\ orders'[o].status \in {"accepted", "completed"})
         => /\ currentUserId \in DOMAIN users
            /\ users[currentUserId].role = "vendor"
            /\ orders[o].vendorId \in DOMAIN vendors
            /\ vendors[orders[o].vendorId].userId = currentUserId]_vars

\* C18: whenever a placeOrder call announces an order or sets a timer, every
\* order of the call exists (one per vendor of the cart, the announced and timed
\* ones among them) and the cart is empty.
C18_ScheduledAfterAllCreated ==
  [][(op'.name = "placeOrder" /\ (out' # <<>> \/ timers' # timers)) =>
       LET new == DOMAIN orders' \ DOMAIN orders
       IN  /\ Cardinality(new) = Cardinality(CartVendors(cart))
           /\ \A v \in CartVendors(cart) : \E o \in new : orders'[o].vendorId = v
           /\ Notified(out', "ready") \subseteq new
           /\ {t.id : t \in timers' \ timers} \subseteq new
           /\ cart' = <<>>]_vars

\* A checkout of a cart of two vendors with a later schedule has just set the
\* timers of its two orders.
C18_Witness ==
  /\ op = [name |-> "placeOrder", res |-> "ok"]
  /\ out = <<>>
  /\ cart = <<>>
  /\ \E t1 \in timers, t2 \in timers :
       /\ t1.id # t2.id
       /\ {t1.id, t2.id} \subseteq DOMAIN orders
       /\ orders[t1.id].vendorId # orders[t2.id].vendorId
       /\ setUp[t1.id].made /\ setUp[t2.id].made

\* C19: every order has at least one item, and every item's product is in the
\* product registry and belongs to the order's vendor.
C19_ItemsOfOrderVendor ==
  \A o \in DOMAIN orders :
    /\ orders[o].items # <<>>
    /\ \A i \in 1..Len(orders[o].items) :
         /\ orders[o].items[i].productId \in DOMAIN products
         /\ products[orders[o].items[i].productId].vendorId = orders[o].vendorId

\* C20: placeOrder on an empty cart fails and changes nothing: no order is
\* created, the vendors' order lists and the cart stay as they were, and no
\* announcement or timer is set up.
C20_EmptyCartRefused ==
  [][(op'.name = "placeOrder" /\ cart = <<>>) =>
       /\ op'.res \in {"emptyCart", "notLoggedIn"}
       /\ UNCHANGED <<orders, vendors, cart, timers, setUp, saved, ids>>
       /\ out' = <<>>]_vars

\* A logged-in customer has just pressed the place-order button on an empty cart.
C20_Witness ==
  /\ op = [name |-> "placeOrder", res |-> "emptyCart"]
  /\ cart = <<>>
  /\ currentUserId \in DOMAIN users
  /\ users[currentUserId].role = "customer"


\* C21: placeOrder without a customer id, and the place-order button with nobody
\* logged in, fail whatever the cart holds: no order is created, the vendors'
\* order lists and the cart stay as they were, nothing is announced or timed.
C21_NoCustomerRefused ==
  [][(placeOrder(0, 0) \/ (currentUserId = 0 /\ PlaceOrderClick(0))) =>
       /\ op' \in {[name |-> "placeOrder", res |-> "notLoggedIn"],
                  [name |-> "idle", res |-> "ok"]}
       /\ UNCHANGED <<orders, vendors, cart, timers, setUp, saved, ids>>
       /\ out' = <<>>]_vars

\* placeOrder has just been called without a customer id while nobody is logged
\* in and the cart holds a line.
C21_Witness ==
  /\ op = [name |-> "placeOrder", res |-> "notLoggedIn"]
  /\ currentUserId = 0
  /\ cart # <<>>

\* C22: addProductToVendor with a vendor id that is not in the vendor registry
\* fails and leaves the product registry as it was.
C22_UnknownVendorAddsNothing ==
  [][(op' = [name |-> "addProduct", res |-> "threw"]) => products' = products]_vars

\* C23: every product in the registry has a non-negative price.
C23_PriceNonNegative ==
  \A p \in DOMAIN products : products[p].price >= 0

\* C24: no two users share a phone; a login either returns a user of the
\* registry and leaves the registry as it was, or creates one user whose phone no
\* user of the registry had and changes no other user.
C24_PhoneKeyedLookup ==
  [][/\ \A u1, u2 \in DOMAIN users' : users'[u1].phone = users'[u2].phone => u1 = u2
     /\ (op'.name = "login") =>
          IF currentUserId' \in DOMAIN users
          THEN users' = users
          ELSE /\ DOMAIN users' = DOMAIN users \cup {currentUserId'}
               /\ \A u \in DOMAIN users :
                    /\ users'[u] = users[u]
                    /\ users[u].phone # users'[currentUserId'].phone]_vars

\* A login has just returned a user who was in the registry before it, while the
\* registry holds other users as well.
C24_Witness ==
  /\ op = [name |-> "login", res |-> "ok"]
  /\ currentUserId \in DOMAIN users
  /\ ids.u > currentUserId + 1
  /\ Cardinality(DOMAIN users) > 1

\* C25: cartAdd of an unknown product returns false and leaves the cart as it
\* was; cartAdd of a known product adds one to the line of that product or, when
\* there is none, appends a line with the product's vendor; and the cart never
\* holds two lines of one product, nor a line whose vendor is not the vendor of
\* its product in the registry.
C25_OneLinePerProduct ==
  [][/\ (op' = [name |-> "cartAdd", res |-> "false"]) => cart' = cart
     /\ (op'.name = "cartAdd" /\ op'.res # "false") =>
          \E pid \in DOMAIN products :
            \/ \E i \in 1..Len(cart) :
                 /\ cart[i].productId = pid
                 /\ cart' = [cart EXCEPT ![i].qty = @ + 1]
            \/ /\ \A i \in 1..Len(cart) : cart[i].productId # pid
               /\ cart' = Append(cart, [productId |-> pid,
                                        vendorId |-> products[pid].vendorId, qty |-> 1])
     /\ \A i, j \in 1..Len(cart') : cart'[i].productId = cart'[j].productId => i = j
     /\ \A i \in 1..Len(cart') :
          /\ cart'[i].qty > 0
          /\ cart'[i].productId \in DOMAIN products'
               => products'[cart'[i].productId].vendorId = cart'[i].vendorId]_vars

\* cartAdd has just summed a second unit into the line of a product that was in
\* the cart.
C25_Witness ==
  /\ op = [name |-> "cartAdd", res |-> "true"]
  /\ Len(cart) = 1
  /\ cart[1].qty = 2

\* C26: a notification handed to ui.browserNotify is shown as a platform
\* notification or as a toast, at once or when the prompt it raised is answered;
\* it is never dropped.
C26_NeverDropped ==
  [][(op'.name \in {"browserNotify", "prompt"}) =>
       op'.res \in {"platform", "toast", "asked"}]_vars

\* C27: every vendor's userId is the id of a user with role vendor, and no two
\* vendors have the same userId.
C27_OwnershipOneToOne ==
  /\ \A v \in DOMAIN vendors :
       /\ vendors[v].userId \in DOMAIN users
       /\ users[vendors[v].userId].role = "vendor"
  /\ \A v1, v2 \in DOMAIN vendors : vendors[v1].userId = vendors[v2].userId => v1 = v2

\* A stall has been created from the location of the logged-in vendor user.
C27_Witness ==
  /\ currentUserId \in DOMAIN users
  /\ users[currentUserId].role = "vendor"
  /\ \E v \in DOMAIN vendors :
       /\ vendors[v].userId # currentUserId
       /\ vendors[v].products = <<>>
       /\ vendors[v].active

\* The position of product pid's line in the cart c, and the position of the
\* first line of vendor v.
LinePos(c, pid) == Min({i \in 1..Len(c) : c[i].productId = pid})

FirstPos(c, v) == Min({i \in 1..Len(c) : c[i].vendorId = v})

\* C28: the orders a checkout creates are created in the order in which their
\* vendors first appear in the cart, and the items of each order are the cart's
\* lines of its vendor in the order they have in the cart.
C28_StableGrouping ==
  [][(op' = [name |-> "placeOrder", res |-> "ok"]) =>
       LET new == DOMAIN orders' \ DOMAIN orders
       IN  /\ \A o1, o2 \in new :
                o1 < o2 => FirstPos(cart, orders'[o1].vendorId)
                             < FirstPos(cart, orders'[o2].vendorId)
           /\ \A o \in new :
                /\ \A i \in 1..Len(orders'[o].items) :
                     \E k \in 1..Len(cart) :
                       /\ cart[k].vendorId = orders'[o].vendorId
                       /\ cart[k].productId = orders'[o].items[i].productId
                       /\ cart[k].qty = orders'[o].items[i].qty
                /\ \A i, j \in 1..Len(orders'[o].items) :
                     i < j => LinePos(cart, orders'[o].items[i].productId)
                                < LinePos(cart, orders'[o].items[j].productId)]_vars

\* A checkout has just created two orders, the first of them for the vendor with
\* the larger id, whose line came first in the cart.
C28_Witness ==
  /\ op = [name |-> "placeOrder", res |-> "ok"]
  /\ Len(out) = 2
  /\ out[1].id < out[2].id
  /\ orders[out[1].id].vendorId > orders[out[2].id].vendorId

\* The quantities and the price-times-quantity amounts of the lines of c at the
\* positions I, summed from the last position down.
RECURSIVE TotalsAt(_, _, _)
TotalsAt(I, c, ps) ==
  IF I = {} THEN [subtotal |-> 0, count |-> 0]
  ELSE LET k == CHOOSE x \in I : \A y \in I : y <= x
           r == TotalsAt(I \ {k}, c, ps)
       IN  [subtotal |-> r.subtotal + c[k].qty * ps[c[k].productId].price,
            count |-> r.count + c[k].qty]

\* C29: cartSummary returns the sum of the quantities and the sum of price times
\* quantity over exactly the cart lines whose product is in the product registry.
C29_SummaryOverResolvedLines ==
  cartSummary(cart, products)
    = TotalsAt({i \in 1..Len(cart) : cart[i].productId \in DOMAIN products}, cart, products)

\* The cart holds a line whose product is no longer in the registry next to a
\* line of a priced product, and the summary counts the second only.
C29_Witness ==
  /\ \E i \in 1..Len(cart) : cart[i].productId \notin DOMAIN products
  /\ \E i \in 1..Len(cart) :
       /\ cart[i].productId \in DOMAIN products
       /\ products[cart[i].productId].price > 0
       /\ cartSummary(cart, products)
            = [subtotal |-> products[cart[i].productId].price * cart[i].qty,
               count |-> cart[i].qty]

\* C30: an order is announced as ready only while its status is pending.
C30_AnnouncedOnlyWhilePending ==
  [][\A o \in Notified(out', "ready") :
       /\ o \in DOMAIN orders'
       /\ orders'[o].status = "pending"]_vars


\* C31: when a vendor user who owns no stall sets a location, afterwards there is
\* a stall whose userId is that user, at that location and active.
C31_ProfileForSetter ==
  [][(StallGps(1) /\ VendorOf(vendors, currentUserId) = 0) =>
       \E v \in DOMAIN vendors' :
         /\ vendors'[v].userId = currentUserId
         /\ vendors'[v].loc = 1
         /\ vendors'[v].active]_vars


\* C32: at most one interval timer of the proximity monitor is armed, and it is
\* the one proximityInterval names.
C32_OneIntervalArmed ==
  /\ Cardinality(armed) <= 1
  /\ armed = {proximityInterval}

\* A second customer has logged in on a page whose monitor was started by init and
\* by an earlier login.
C32_Witness ==
  /\ op = [name |-> "login", res |-> "ok"]
  /\ demoFlag
  /\ currentUserId # DemoIds.u
  /\ armed # {}


\* C33: every order is listed exactly once by the vendor its vendorId names and by
\* no other vendor, and every id a vendor lists is the id of an order.
C33_ListsConsistent ==
  /\ \A o \in DOMAIN orders :
       /\ orders[o].vendorId \in DOMAIN vendors
       /\ \A v \in DOMAIN vendors :
            Count(vendors[v].orders, o) = IF v = orders[o].vendorId THEN 1 ELSE 0
  /\ \A v \in DOMAIN vendors : Range(vendors[v].orders) \subseteq DOMAIN orders


\* C34: a deferred callback that fires for an order that is no longer in the order
\* set returns without an error, emits no notification and changes nothing but
\* the set of pending timers.
C34_TimerOfGoneOrderIdle ==
  [][\A t \in timers :
       (TimerFire(t) /\ t.id \notin DOMAIN orders) =>
         /\ op' = [name |-> "timer", res |-> "skipped"]
         /\ out' = <<>>
         /\ UNCHANGED <<users, currentUserId, vendors, products, orders, saved, demoFlag,
                        settings, ids, cart, setUp, lastProxNotified>>]_vars

\* The timer of an order placed before the demo load has fired after the demo
\* load replaced the order set.
C34_Witness ==
  /\ op = [name |-> "timer", res |-> "skipped"]
  /\ demoFlag
  /\ ids.o > 1
  /\ \E o \in DOMAIN setUp : o \notin DOMAIN orders


\* The set of vendors the list arr holds after v was toggled in it.
ToggledSet(S, v) == IF v \in S THEN S \ {v} ELSE S \cup {v}

\* C35: no user's favorites hold a vendor twice; a toggle by the logged-in user
\* adds the vendor to that user's favorites when it is not there and takes it out
\* when it is, and leaves the other users' favorites alone, so that toggling a
\* vendor twice gives back the set of favorites there was; a toggle with nobody
\* logged in changes no favorites; removeFavorite takes the vendor out.
C35_FavoritesAreSets ==
  [][/\ \A u \in DOMAIN favorites', v \in DOMAIN vendors' : Count(favorites'[u], v) <= 1
     /\ \A u \in DOMAIN favorites', v \in DOMAIN vendors' :
          Range(Toggled(Toggled(favorites'[u], v), v)) = Range(favorites'[u])
     /\ (op'.name = "toggleFavorite" /\ currentUserId = 0) => favorites' = favorites
     /\ (op'.name = "toggleFavorite" /\ currentUserId # 0) =>
          /\ \E v \in DOMAIN vendors :
               Range(FavsOf(favorites', currentUserId))
                 = ToggledSet(Range(FavsOf(favorites, currentUserId)), v)
          /\ \A u \in DOMAIN favorites \ {currentUserId} : favorites'[u] = favorites[u]
     /\ (op'.name = "removeFavorite") =>
          /\ \E v \in Range(FavsOf(favorites, currentUserId)) :
               Range(FavsOf(favorites', currentUserId))
                 = Range(FavsOf(favorites, currentUserId)) \ {v}
          /\ \A u \in DOMAIN favorites \ {currentUserId} : favorites'[u] = favorites[u]]_vars

\* The logged-in user has just toggled off one of two favorites, while another
\* user has favorites too.
C35_Witness ==
  /\ op = [name |-> "toggleFavorite", res |-> "removed"]
  /\ Len(FavsOf(favorites, currentUserId)) = 1
  /\ \E u \in DOMAIN favorites \ {currentUserId} : favorites[u] # <<>>

====
